---------------------------- MODULE Spec2Model ----------------------------
(***************************************************************************)
(* A model of the VPARecommender operator (src/operator/operator.py).      *)
(*                                                                         *)
(* One reconciliation cycle is one invocation of recommend_resources.  It  *)
(* talks to four outside parties, each a piece of shared state here:       *)
(*   - the git remote (the default branch and the change branch            *)
(*     vpar/proposition),                                                  *)
(*   - the review-request service (the open pull requests of the pair      *)
(*     (vpar/proposition, base)),                                          *)
(*   - the Kubernetes API (the secret, the VPA object, the owning          *)
(*     VPARecommender resource and its status),                            *)
(*   - the private working copy of the cycle.                              *)
(* Every call that leaves the process is one atomic step; the outcome of   *)
(* the call (success or one of the failures the code distinguishes) is a   *)
(* nondeterministic choice.                                                *)
(***************************************************************************)
EXTENDS Naturals, Sequences, FiniteSets, TLC

\* ------------------------------------------------------------------ bounds

\* Cycles the single reconciler runs one after the other (the timer).
MaxCycles == 2

\* Failing calls injected in one behaviour.
MaxFailures == 1

\* ------------------------------------------------------- values and targets

Procs == {1, 2}

Absent == ""

\* A recommendation: the resources dict.  A key that is not in the dict maps
\* to Absent.
EmptyRec == [cpu |-> Absent, memory |-> Absent, memoryLimit |-> Absent]

RecA == [cpu |-> "250m", memory |-> "512Mi", memoryLimit |-> Absent]

RecB == [cpu |-> "500m", memory |-> "512Mi", memoryLimit |-> Absent]

RecCpu == [cpu |-> "250m", memory |-> Absent, memoryLimit |-> Absent]

\* What the first container recommendation of the VPA object holds in a
\* cycle.
VpaRecs == {EmptyRec, RecA, RecB}

Has(resources, key) == resources[key] # Absent

\* Target resource descriptors (spec.targetResource) and spec.gitPath.
TargetApi == [kind |-> "Deployment", name |-> "api", namespace |-> "prod", containerIndex |-> 0]

TargetWeb == [kind |-> "Deployment", name |-> "Web", namespace |-> "prod", containerIndex |-> 1]

\* The target of the same kind and name in another namespace.
TargetApiStaging == [kind |-> "Deployment", name |-> "api", namespace |-> "staging", containerIndex |-> 0]

Targets == {TargetApi, TargetWeb, TargetApiStaging}

GitPath == "apps"

\* str.lower() on the names and kinds the targets use.
Lower(s) ==
    CASE s = "Deployment" -> "deployment"
      [] s = "Web" -> "web"
      [] s = "API" -> "api"
      [] OTHER -> s

\* The patch file's path: <git_path>/patches/<name>.<kind>.yaml
PatchPath(git_path, target_resource) ==
    [dir |-> git_path, name |-> Lower(target_resource.name), kind |-> Lower(target_resource.kind)]

\* One add operation of the patch document.
PatchOp(container_index, section, dim, value) ==
    [op |-> "add", container |-> container_index, section |-> section, dim |-> dim, value |-> value]

\* A patch builder that writes an operation for every dimension, present or
\* not.
PatchOps_AllDimensions(target_resource, resources) ==
    <<PatchOp(target_resource.containerIndex, "requests", "cpu", resources.cpu),
      PatchOp(target_resource.containerIndex, "requests", "memory", resources.memory)>>

\* The list of operations create_patch_file dumps into the file.
PatchOps(target_resource, resources) ==
    LET ci == target_resource.containerIndex
        cpuOps == IF Has(resources, "cpu")
                  THEN <<PatchOp(ci, "requests", "cpu", resources.cpu)>>
                  ELSE <<>>
        memory_limit == IF Has(resources, "memoryLimit") THEN resources.memoryLimit ELSE resources.memory
        memOps == IF Has(resources, "memory")
                  THEN <<PatchOp(ci, "requests", "memory", resources.memory),
                         PatchOp(ci, "limits", "memory", memory_limit)>>
                  ELSE <<>>
    IN cpuOps \o memOps

\* ------------------------------------------------------------------- files

AllPaths == {PatchPath(GitPath, t) : t \in Targets}

NoFile == [exists |-> FALSE, ops |-> <<>>]

FileOf(ops) == [exists |-> TRUE, ops |-> ops]

EmptyTree == [f \in AllPaths |-> NoFile]

\* A commit: its identity, the length of its history and its tree.
Commit(id, n, files) == [exists |-> TRUE, id |-> id, n |-> n, files |-> files]

NoBranch == [exists |-> FALSE, id |-> 0, n |-> 0, files |-> EmptyTree]

\* ------------------------------------------------------------------ status

Cond(status, reason, message) ==
    [type |-> "Recommended", status |-> status, reason |-> reason, message |-> message]

\* status_data of the empty-recommendation exit.
NoRecommendationStatus ==
    [lastRecommendation |-> EmptyRec,
     status |-> "NoRecommendation",
     conditions |-> <<Cond("False", "NoRecommendations", "No recommendations available")>>]

\* pr_status: number 0 stands for None (response.get("number") of a document
\* that has none).
PrStatus(number, commit_count) == [number |-> number, commits |-> commit_count]

\* status_data of the successful exit.
PatchCreatedStatus(resources, target_resource, pr_status, pr_exists) ==
    [lastRecommendation |-> resources,
     lastPatch |-> [path |-> PatchPath(GitPath, target_resource),
                    target |-> <<target_resource.kind, target_resource.name>>],
     pullRequest |-> pr_status,
     conditions |-> <<Cond("True", "PatchCreated",
                           IF pr_exists THEN "updated PR" ELSE "created PR")>>]

\* status_data of the except branch; the message is the error text.
ProcessingErrorStatus(resources, error) ==
    [lastRecommendation |-> resources,
     conditions |-> <<Cond("False", "ProcessingError", error)>>]

NoStatusData == [conditions |-> <<>>]

\* The status subresource before any cycle wrote it.
NoStatus == [k \in {} |-> NoStatusData]

\* patch_namespaced_custom_object_status with a dict body is a JSON merge
\* patch: a key the body does not hold keeps its stored value, a dict is
\* merged key by key, a list or a string replaces the stored value.
MergeRec(old, new) == [k \in DOMAIN new |-> IF new[k] # Absent THEN new[k] ELSE old[k]]

MergePatch(old, body) ==
    [k \in DOMAIN old \cup DOMAIN body |->
        IF k \notin DOMAIN body THEN old[k]
        ELSE IF k = "lastRecommendation" /\ k \in DOMAIN old THEN MergeRec(old[k], body[k])
        ELSE body[k]]

\* update_status without its outer try/except: what the inner handler
\* re-raises, and what the patch raises, leaves the function.
UpdateStatusOutcome_NoOuterHandler(read_answer, patch_answer) ==
    IF read_answer = "404" THEN "skipped"
    ELSE IF read_answer = "error" THEN "raised"
    ELSE IF patch_answer = "ok" THEN "written"
    ELSE "raised"

\* What update_status does with the answers of the two API calls: "written",
\* "skipped" (404 on the read: return), "logged" (an exception caught and
\* logged) or "raised" (an exception leaving update_status).
UpdateStatusOutcome(read_answer, patch_answer) ==
    IF read_answer = "404" THEN "skipped"
    ELSE IF read_answer = "error" THEN "logged"
    ELSE IF patch_answer = "ok" THEN "written"
    ELSE "logged"

\* --------------------------------------------------------- code decisions

\* The short-circuit that is never taken.
NoRecommendation_Never(resources) == FALSE

\* `if not resources` (the short-circuit).
NoRecommendation(resources) == \A k \in DOMAIN resources : ~Has(resources, k)

\* get_vpa_recommendation: the answer of the VPA read to the resources dict,
\* or "raise" for kopf.TemporaryError.
VpaResult(answer, container_rec) ==
    CASE answer = "ok" -> [cpu |-> container_rec.cpu, memory |-> container_rec.memory,
                            memoryLimit |-> Absent]
      [] answer = "404" -> EmptyRec
      [] OTHER -> EmptyRec

VpaRaises(answer) == answer \notin {"ok", "404"}

\* delay=300 of the kopf.TemporaryError.
TemporaryDelay == 300

NoError == [kind |-> "none", delay |-> 0]

\* The exception that leaves get_vpa_recommendation: the except clause names
\* ApiException only, so it turns an ApiException other than 404 into
\* kopf.TemporaryError and lets every other exception of the call pass as
\* it is.
VpaError(answer) ==
    CASE answer = "api_error" -> [kind |-> "TemporaryError", delay |-> TemporaryDelay]
      [] answer = "other_error" -> [kind |-> "Exception", delay |-> 0]
      [] OTHER -> NoError

\* A branch check that never finds the branch.
BranchExists_Never(fetch_answer, remote_branch) == FALSE

\* check_branch_exists: a failing fetch or ls-remote is logged and answers
\* False.
BranchExists(fetch_answer, remote_branch) ==
    IF fetch_answer = "ok" THEN remote_branch.exists ELSE FALSE

\* check_pull_request_exists: <<pr_exists, number>> for the list of open
\* requests; a failing call answers (False, None).
PrLookup(answer, open) ==
    IF answer = "ok" /\ open # {}
    THEN <<TRUE, CHOOSE n \in open : \A m \in open : n >= m>>
    ELSE <<FALSE, 0>>

\* An error document (a JSON object, not a list) makes response[0] raise
\* KeyError, which check_pull_request_exists does not catch.
PrLookupRaises(answer) == answer = "error_doc"

\* A status check that always reports changes.
TreeClean_Never(repo) == FALSE

\* A status check that never reports changes.
TreeClean_Always(repo) == TRUE

\* `git status --porcelain` prints nothing.
TreeClean(repo) == repo.tree = repo.head.files

\* A caller that lets an exception of get_commit_count reach the except
\* branch of the cycle.
CommitCountFatal_Uncaught(answer) == answer = "raise"

\* Both calls of get_commit_count stand in their own try/except Exception,
\* which logs a warning and goes on: no answer ends the cycle.
CommitCountFatal(answer) == FALSE

\* `if not pr_exists`
NeedsCreate(pr_exists) == ~pr_exists

\* create_pull_request raises only when curl fails or the answer is no JSON;
\* an error document is read with .get and gives number None.
CreateRaises(answer) == answer = "curl_fail"

\* The review-request service creates the request when the head branch is
\* on the remote and the pair has no open request (it answers with an error
\* document otherwise).
ServiceAccepts(remote_branch, open) == remote_branch.exists /\ open = {}

\* ------------------------------------------------------------------- state

VARIABLES
    mainTip,     \* the tip of the default branch on the remote
    remote,      \* the tip of vpar/proposition on the remote, or NoBranch
    prs,         \* numbers of the open requests for (vpar/proposition, base)
    nextPr,      \* the number the service gives the next request
    nextCommit,  \* the identity of the next commit
    cr,          \* per cycle owner: the VPARecommender resource and its status
    tgt,         \* per cycle owner: spec.targetResource
    cy,          \* per cycle owner: the locals of the running cycle
    h,           \* per cycle owner: what the running cycle did so far
    log,         \* per cycle owner: what each ended cycle did
    fails        \* failing calls injected so far

vars == <<mainTip, remote, prs, nextPr, nextCommit, cr, tgt, cy, h, log, fails>>

Terminal == {"done", "raised"}

NoRepo == [branch |-> "none", head |-> NoBranch, tree |-> EmptyTree, origin |-> NoBranch]

\* The locals of recommend_resources at its first call.
FreshCycle ==
    [pc |-> "secret", resources |-> EmptyRec, pr_exists |-> FALSE, pr_number |-> 0,
     has_branch |-> FALSE, commit_count |-> 0, repo |-> NoRepo,
     status_data |-> NoStatusData, read_answer |-> "none"]

\* The record of one cycle.
FreshHistory(tip, open, status) ==
    [rec |-> EmptyRec, fetched |-> FALSE, clean |-> TRUE,
     tip0 |-> tip, open0 |-> open, status0 |-> status,
     lookups |-> 0, clones |-> 0, checkouts |-> 0, writes |-> 0, commits |-> 0,
     pushes |-> 0, creates |-> 0, createRes |-> "none", noop |-> FALSE,
     attempts |-> <<>>, outcome |-> "none", raisedFrom |-> "none",
     failedAt |-> {}, tfail |-> FALSE, afterT |-> 0,
     vpa |-> "none", error |-> NoError]

\* A builder whose file name follows the recommended cpu value.
WithPatch_PathFromRecommendation(files, target_resource, resources) ==
    [files EXCEPT ![IF resources.cpu = "500m" THEN PatchPath(GitPath, TargetWeb)
                    ELSE PatchPath(GitPath, target_resource)] =
                        FileOf(PatchOps(target_resource, resources))]

\* The working tree after create_patch_file: open(patch_file, 'w') puts the
\* new document in the place of whatever the path held.
WithPatch(files, target_resource, resources) ==
    [files EXCEPT ![PatchPath(GitPath, target_resource)] = FileOf(PatchOps(target_resource, resources))]

\* The condition reason and the request number of the status a cycle handed
\* to update_status ("none" and 0 when it handed none).
AttemptedReason(hist) ==
    IF hist.attempts = <<>> THEN "none" ELSE hist.attempts[Len(hist.attempts)].conditions[1].reason

AttemptedNumber(hist) ==
    IF hist.attempts = <<>> THEN 0
    ELSE LET sd == hist.attempts[Len(hist.attempts)]
         IN IF "pullRequest" \in DOMAIN sd THEN sd.pullRequest.number ELSE 0

\* The status_data of the last call of update_status.
AttemptedStatus(hist) ==
    IF hist.attempts = <<>> THEN NoStatusData ELSE hist.attempts[Len(hist.attempts)]

\* What is kept of a cycle once the next one has started.
Summary(hist) ==
    [clean |-> hist.clean, failedAt |-> hist.failedAt, rec |-> hist.rec,
     fetched |-> hist.fetched,
     open0 |-> hist.open0, creates |-> hist.creates, pushes |-> hist.pushes,
     reason |-> AttemptedReason(hist), number |-> AttemptedNumber(hist),
     status |-> AttemptedStatus(hist)]

NoLog ==
    [n |-> 0, allClean |-> TRUE, sameRec |-> TRUE, rec1 |-> EmptyRec,
     last |-> Summary(FreshHistory(NoBranch, {}, NoStatus))]

\* The ended cycle joins the record of the cycles before it.
Logged(l, hist) ==
    [n |-> l.n + 1,
     allClean |-> l.allClean /\ hist.clean,
     sameRec |-> l.sameRec /\ (l.n = 0 \/ hist.rec = l.rec1),
     rec1 |-> IF l.n = 0 THEN hist.rec ELSE l.rec1,
     last |-> Summary(hist)]

\* The remote before the first cycle: the default branch holds no patch or
\* the merged patch of an earlier proposal; the change branch is absent or
\* holds an earlier proposal; a request is open only for an existing branch.
InitRemote ==
    /\ \E files \in {EmptyTree, WithPatch(EmptyTree, TargetApi, RecA)} :
          mainTip = Commit(0, 1, files)
    /\ \E branch \in {NoBranch,
                      Commit(1, 2, WithPatch(mainTip.files, TargetWeb, RecA)),
                      Commit(1, 2, WithPatch(mainTip.files, TargetApi, RecB))} :
          remote = branch
    /\ prs \in (IF remote.exists THEN {{}, {1}} ELSE {{}})
    /\ nextPr = Cardinality(prs) + 1
    /\ nextCommit = 2

InitCycles ==
    /\ cr = [p \in Procs |-> [exists |-> TRUE, status |-> NoStatus]]
    /\ cy = [p \in Procs |-> FreshCycle]
    /\ h = [p \in Procs |-> FreshHistory(remote, prs, cr[p].status)]
    /\ log = [p \in Procs |-> NoLog]

\* One reconciler, its cycles one after the other.
Init ==
    /\ InitRemote
    /\ tgt = [p \in Procs |-> IF p = 1 THEN TargetApi ELSE TargetWeb]
    /\ InitCycles
    /\ fails = 0

\* Two reconcilers, one cycle each, at the same time; no call fails but
\* those the service itself refuses.
InitConc ==
    /\ InitRemote
    /\ tgt \in {[p \in Procs |-> IF p = 1 THEN TargetApi ELSE t] : t \in Targets}
    /\ InitCycles
    /\ fails = MaxFailures

\* ----------------------------------------------------------------- helpers

CanFail(k) == fails + k <= MaxFailures

Bit(b) == IF b THEN 1 ELSE 0

\* The except branch of recommend_resources: the error becomes the status.
Caught(c, error) ==
    [c EXCEPT !.pc = "status_read",
              !.status_data = ProcessingErrorStatus(c.resources, error)]

\* An exception that leaves recommend_resources.
Raised(c) == [c EXCEPT !.pc = "raised"]

Step(p, c, hist, nfail) ==
    /\ cy' = [cy EXCEPT ![p] = c]
    /\ h' = [h EXCEPT ![p] = hist]
    /\ fails' = fails + nfail

\* ----------------------------------------------------------------- actions

\* read_namespaced_secret: an ApiException becomes kopf.PermanentError, which
\* leaves recommend_resources.
ReadSecret(p) ==
    /\ cy[p].pc = "secret"
    /\ \E answer \in {"ok", "api_error"} :
          /\ answer # "ok" => CanFail(1)
          /\ Step(p,
                  IF answer = "ok" THEN [cy[p] EXCEPT !.pc = "fetch"] ELSE Raised(cy[p]),
                  IF answer = "ok" THEN h[p]
                  ELSE [h[p] EXCEPT !.clean = FALSE, !.raisedFrom = "secret",
                                    !.failedAt = @ \cup {"secret"}, !.outcome = "raised"],
                  Bit(answer # "ok"))
    /\ UNCHANGED <<mainTip, remote, prs, nextPr, nextCommit, cr, tgt, log>>

\* get_vpa_recommendation and the short-circuit on an empty result.
GetVpaRecommendation(p) ==
    /\ cy[p].pc = "fetch"
    /\ \E answer \in {"ok", "404", "api_error", "other_error"}, container_rec \in VpaRecs :
          LET resources == VpaResult(answer, container_rec)
              c == [cy[p] EXCEPT !.resources = resources]
          IN /\ VpaRaises(answer) => CanFail(1)
             /\ Step(p,
                     IF VpaRaises(answer) THEN Raised(cy[p])
                     ELSE IF NoRecommendation(resources)
                     THEN [c EXCEPT !.pc = "status_read", !.status_data = NoRecommendationStatus]
                     ELSE [c EXCEPT !.pc = "pr_lookup"],
                     IF VpaRaises(answer)
                     THEN [h[p] EXCEPT !.clean = FALSE, !.raisedFrom = "fetch",
                                       !.failedAt = @ \cup {"fetch"}, !.outcome = "raised",
                                       !.vpa = answer, !.error = VpaError(answer)]
                     ELSE [h[p] EXCEPT !.rec = resources, !.fetched = TRUE, !.vpa = answer],
                     Bit(VpaRaises(answer)))
    /\ UNCHANGED <<mainTip, remote, prs, nextPr, nextCommit, cr, tgt, log>>

\* check_pull_request_exists, called before the try block.
CheckPullRequestExists(p) ==
    /\ cy[p].pc = "pr_lookup"
    /\ \E answer \in {"ok", "fail", "error_doc"} :
          LET found == PrLookup(answer, prs)
              hist == [h[p] EXCEPT !.lookups = @ + 1]
          IN /\ answer # "ok" => CanFail(1)
             /\ Step(p,
                     IF PrLookupRaises(answer) THEN Raised(cy[p])
                     ELSE [cy[p] EXCEPT !.pr_exists = found[1], !.pr_number = found[2],
                                        !.pc = "clone"],
                     IF PrLookupRaises(answer)
                     THEN [hist EXCEPT !.clean = FALSE, !.raisedFrom = "pr_lookup",
                                       !.failedAt = @ \cup {"pr_lookup"}, !.outcome = "raised"]
                     ELSE IF answer = "ok" THEN hist
                     ELSE [hist EXCEPT !.clean = FALSE, !.failedAt = @ \cup {"pr_lookup"}],
                     Bit(answer # "ok"))
    /\ UNCHANGED <<mainTip, remote, prs, nextPr, nextCommit, cr, tgt, log>>

\* git_clone: a fresh working copy on the default branch, with the remote's
\* branches as remote-tracking refs.
GitClone(p) ==
    /\ cy[p].pc = "clone"
    /\ \E answer \in {"ok", "fail"} :
          /\ answer # "ok" => CanFail(1)
          /\ Step(p,
                  IF answer = "ok"
                  THEN [cy[p] EXCEPT !.pc = "branch_check",
                                     !.repo = [branch |-> "default", head |-> mainTip,
                                               tree |-> mainTip.files, origin |-> remote]]
                  ELSE Caught(cy[p], "clone"),
                  IF answer = "ok" THEN [h[p] EXCEPT !.clones = @ + 1]
                  ELSE [h[p] EXCEPT !.clones = @ + 1, !.clean = FALSE, !.tfail = TRUE,
                                    !.failedAt = @ \cup {"clone"}],
                  Bit(answer # "ok"))
    /\ UNCHANGED <<mainTip, remote, prs, nextPr, nextCommit, cr, tgt, log>>

\* has_branch = check_branch_exists(repo_dir, branch_name)
CheckBranchExists(p) ==
    /\ cy[p].pc = "branch_check"
    /\ \E answer \in {"ok", "fail"} :
          LET has_branch == BranchExists(answer, remote) IN
          /\ answer # "ok" => CanFail(1)
          /\ Step(p,
                  [cy[p] EXCEPT !.has_branch = has_branch,
                                !.repo.origin = IF answer = "ok" THEN remote ELSE @,
                                !.pc = IF has_branch THEN "count1" ELSE "checkout"],
                  IF answer = "ok" THEN h[p]
                  ELSE [h[p] EXCEPT !.clean = FALSE, !.tfail = TRUE,
                                    !.failedAt = @ \cup {"fetch_branch"}],
                  Bit(answer # "ok"))
    /\ UNCHANGED <<mainTip, remote, prs, nextPr, nextCommit, cr, tgt, log>>

\* get_commit_count, before the checkout (when has_branch) and after the
\* push.  "fail" is an error get_commit_count catches itself (it answers 0),
\* "raise" one it does not catch, which the caller catches.
GetCommitCount(p) ==
    /\ cy[p].pc \in {"count1", "count2"}
    /\ \E answer \in {"ok", "fail", "raise"} :
          LET first == cy[p].pc = "count1"
              count == IF answer = "ok" THEN (IF remote.exists THEN remote.n ELSE 0)
                       ELSE IF answer = "fail" \/ first THEN 0
                       ELSE cy[p].commit_count
              c == [cy[p] EXCEPT !.commit_count = count]
          IN /\ answer # "ok" => CanFail(1)
             /\ Step(p,
                     IF CommitCountFatal(answer) THEN Caught(cy[p], "commit_count")
                     ELSE IF first THEN [c EXCEPT !.pc = "checkout"]
                     ELSE IF NeedsCreate(c.pr_exists) THEN [c EXCEPT !.pc = "pr_create"]
                     ELSE [c EXCEPT !.pc = "status_read",
                                    !.status_data = PatchCreatedStatus(c.resources, tgt[p],
                                                        PrStatus(c.pr_number, count), c.pr_exists)],
                     IF answer = "ok" THEN h[p]
                     ELSE [h[p] EXCEPT !.clean = FALSE, !.failedAt = @ \cup {"commit_count"}],
                     Bit(answer # "ok"))
    /\ UNCHANGED <<mainTip, remote, prs, nextPr, nextCommit, cr, tgt, log>>

\* create_or_checkout_branch: check_branch_exists again, then
\* `checkout -B branch origin/branch` or `checkout -b branch`.
CreateOrCheckoutBranch(p) ==
    /\ cy[p].pc = "checkout"
    /\ \E fetch_answer \in {"ok", "fail"}, answer \in {"ok", "fail"} :
          LET repo == cy[p].repo
              origin == IF fetch_answer = "ok" THEN remote ELSE repo.origin
              exists == BranchExists(fetch_answer, remote)
              head == IF exists THEN origin ELSE repo.head
              nfail == Bit(fetch_answer # "ok") + Bit(answer # "ok")
              hist == [h[p] EXCEPT !.checkouts = @ + 1,
                                   !.afterT = @ + Bit(h[p].tfail \/ fetch_answer # "ok"),
                                   !.tfail = @ \/ nfail > 0,
                                   !.clean = @ /\ nfail = 0,
                                   !.failedAt = @ \cup (IF fetch_answer # "ok" THEN {"fetch_checkout"} ELSE {})
                                                  \cup (IF answer # "ok" THEN {"checkout"} ELSE {})]
          IN /\ CanFail(nfail)
             /\ Step(p,
                     IF answer = "ok"
                     THEN [cy[p] EXCEPT !.pc = "write",
                                        !.repo = [branch |-> "change", head |-> head,
                                                  tree |-> head.files, origin |-> origin]]
                     ELSE Caught([cy[p] EXCEPT !.repo.origin = origin], "checkout"),
                     hist, nfail)
    /\ UNCHANGED <<mainTip, remote, prs, nextPr, nextCommit, cr, tgt, log>>

\* create_patch_file: the file of the target is written over.
CreatePatchFile(p) ==
    /\ cy[p].pc = "write"
    /\ Step(p,
            [cy[p] EXCEPT !.pc = "commit_push",
                          !.repo.tree = WithPatch(@, tgt[p], cy[p].resources)],
            [h[p] EXCEPT !.writes = @ + 1, !.afterT = @ + Bit(h[p].tfail)],
            0)
    /\ UNCHANGED <<mainTip, remote, prs, nextPr, nextCommit, cr, tgt, log>>

\* git_commit_and_push: add, status, and unless the tree is clean, commit and
\* `push -f`.  "git_fail" is a failing add, config, status or commit,
\* "push_fail" a failing push after the commit.
GitCommitAndPush(p) ==
    /\ cy[p].pc = "commit_push"
    /\ \E answer \in {"ok", "git_fail", "push_fail"} :
          LET repo == cy[p].repo
              clean == TreeClean(repo)
              new == Commit(nextCommit, repo.head.n + 1, repo.tree)
              commits == ~clean /\ answer # "git_fail"
              pushes == ~clean /\ answer = "ok"
              hist == [h[p] EXCEPT !.commits = @ + Bit(commits), !.pushes = @ + Bit(pushes),
                                   !.noop = clean /\ answer = "ok",
                                   !.afterT = @ + Bit(h[p].tfail),
                                   !.tfail = @ \/ answer # "ok",
                                   !.clean = @ /\ answer = "ok",
                                   !.failedAt = @ \cup (IF answer = "ok" THEN {} ELSE {answer})]
              c == [cy[p] EXCEPT !.repo.head = IF commits THEN new ELSE @]
          IN /\ answer # "ok" => CanFail(1)
             /\ answer = "push_fail" => ~clean
             /\ Step(p,
                     IF answer = "ok" THEN [c EXCEPT !.pc = "count2"] ELSE Caught(c, answer),
                     hist, Bit(answer # "ok"))
             /\ remote' = IF pushes THEN new ELSE remote
             /\ nextCommit' = nextCommit + Bit(commits)
    /\ UNCHANGED <<mainTip, prs, nextPr, cr, tgt, log>>

\* create_pull_request and the success status built from its answer.
CreatePullRequest(p) ==
    /\ cy[p].pc = "pr_create"
    /\ \E answer \in {"created", "error_doc", "curl_fail"} :
          LET accepts == ServiceAccepts(remote, prs)
              number == IF answer = "created" THEN nextPr ELSE 0
              nfail == Bit(answer = "curl_fail" \/ (answer = "error_doc" /\ accepts))
              c == [cy[p] EXCEPT !.pr_number = number]
              hist == [h[p] EXCEPT !.creates = @ + 1,
                                   !.createRes = IF CreateRaises(answer) THEN "raised" ELSE answer,
                                   !.afterT = @ + Bit(h[p].tfail),
                                   !.clean = @ /\ answer = "created",
                                   !.failedAt = @ \cup (IF answer = "created" THEN {} ELSE {"pr_create"})]
          IN /\ answer = "created" => accepts
             /\ CanFail(nfail)
             /\ Step(p,
                     IF CreateRaises(answer) THEN Caught(cy[p], "pr_create")
                     ELSE [c EXCEPT !.pc = "status_read",
                                    !.status_data = PatchCreatedStatus(c.resources, tgt[p],
                                                        PrStatus(number, c.commit_count), c.pr_exists)],
                     hist, nfail)
             /\ prs' = IF answer = "created" THEN prs \cup {nextPr} ELSE prs
             /\ nextPr' = nextPr + Bit(answer = "created")
    /\ UNCHANGED <<mainTip, remote, nextCommit, cr, tgt, log>>

\* How a call of update_status that ended with `outcome` continues the cycle:
\* an exception raised by the call inside the try block is caught by the
\* except branch, which calls update_status again.
AfterStatus(c, outcome) ==
    IF outcome # "raised" THEN [c EXCEPT !.pc = "done"]
    ELSE IF c.status_data.conditions[1].reason = "PatchCreated" THEN Caught(c, "update_status")
    ELSE Raised(c)

\* update_status, first call: does the resource still exist?
UpdateStatusRead(p) ==
    /\ cy[p].pc = "status_read"
    /\ \E answer \in {"ok", "404", "error"} :
          LET outcome == UpdateStatusOutcome(answer, "none")
              hist == [h[p] EXCEPT !.attempts = Append(@, cy[p].status_data)]
          IN /\ (answer = "404") <=> ~cr[p].exists
             /\ answer = "error" => CanFail(1)
             /\ Step(p,
                     IF answer = "ok" THEN [cy[p] EXCEPT !.pc = "status_patch", !.read_answer = answer]
                     ELSE AfterStatus(cy[p], outcome),
                     IF answer = "ok" THEN hist
                     ELSE [hist EXCEPT !.outcome = outcome,
                                       !.raisedFrom = IF outcome = "raised" THEN "update_status" ELSE @,
                                       !.clean = @ /\ answer # "error",
                                       !.failedAt = @ \cup (IF answer = "error" THEN {"status_read"} ELSE {})],
                     Bit(answer = "error"))
    /\ UNCHANGED <<mainTip, remote, prs, nextPr, nextCommit, cr, tgt, log>>

\* update_status, second call: the merge patch of the status.
UpdateStatusPatch(p) ==
    /\ cy[p].pc = "status_patch"
    /\ \E answer \in {"ok", "404", "error"} :
          LET outcome == UpdateStatusOutcome(cy[p].read_answer, answer)
          IN /\ (answer = "404") <=> ~cr[p].exists
             /\ answer = "error" => CanFail(1)
             /\ cr' = IF answer = "ok"
                      THEN [cr EXCEPT ![p].status = MergePatch(@, cy[p].status_data)]
                      ELSE cr
             /\ Step(p,
                     AfterStatus(cy[p], outcome),
                     [h[p] EXCEPT !.outcome = outcome,
                                  !.raisedFrom = IF outcome = "raised" THEN "update_status" ELSE @,
                                  !.clean = @ /\ answer # "error",
                                  !.failedAt = @ \cup (IF answer = "error" THEN {"status_patch"} ELSE {})],
                     Bit(answer = "error"))
    /\ UNCHANGED <<mainTip, remote, prs, nextPr, nextCommit, tgt, log>>

\* The owning resource is deleted while its cycle runs.  Only update_status
\* reads the resource, so a deletion at any earlier step of the cycle is the
\* deletion right before update_status.
DeleteResource(p) ==
    /\ cr[p].exists
    /\ cy[p].pc \in {"status_read", "status_patch"}
    /\ cr' = [cr EXCEPT ![p].exists = FALSE]
    /\ UNCHANGED <<mainTip, remote, prs, nextPr, nextCommit, tgt, cy, h, log, fails>>

\* The timer (or an update of the resource) starts the next cycle.
Trigger(p) ==
    /\ cy[p].pc \in Terminal
    /\ cr[p].exists
    /\ log[p].n + 1 < MaxCycles
    /\ cy' = [cy EXCEPT ![p] = FreshCycle]
    /\ h' = [h EXCEPT ![p] = FreshHistory(remote, prs, cr[p].status)]
    /\ log' = [log EXCEPT ![p] = Logged(@, h[p])]
    /\ UNCHANGED <<mainTip, remote, prs, nextPr, nextCommit, cr, tgt, fails>>

Cycle(p) ==
    \/ ReadSecret(p)
    \/ GetVpaRecommendation(p)
    \/ CheckPullRequestExists(p)
    \/ GitClone(p)
    \/ CheckBranchExists(p)
    \/ GetCommitCount(p)
    \/ CreateOrCheckoutBranch(p)
    \/ CreatePatchFile(p)
    \/ GitCommitAndPush(p)
    \/ CreatePullRequest(p)
    \/ UpdateStatusRead(p)
    \/ UpdateStatusPatch(p)

Next == Cycle(1) \/ DeleteResource(1) \/ Trigger(1)

Spec == Init /\ [][Next]_vars

NextConc == \E p \in Procs : Cycle(p) \/ DeleteResource(p)

SpecConc == InitConc /\ [][NextConc]_vars

\* The resources dicts create_patch_file is applied to: every combination of
\* the keys it reads ('cpu', 'memory', 'memoryLimit') but the empty dict,
\* which the short-circuit keeps from it.
PatchRecs ==
    {r \in [cpu : {Absent, "250m", "500m"}, memory : {Absent, "512Mi", "1Gi"},
            memoryLimit : {Absent, "2Gi"}] : ~NoRecommendation(r)}

\* create_patch_file on its own: a cycle stands right before the call, on a
\* checked-out tree that holds no patch file or an earlier one, with any
\* target and any resources dict.
InitPatch ==
    /\ \E files \in {EmptyTree, WithPatch(EmptyTree, TargetWeb, RecA)} :
          mainTip = Commit(0, 1, files)
    /\ remote = NoBranch /\ prs = {} /\ nextPr = 1 /\ nextCommit = 2
    /\ tgt \in {[p \in Procs |-> t] : t \in Targets}
    /\ cr = [p \in Procs |-> [exists |-> TRUE, status |-> NoStatus]]
    /\ \E resources \in PatchRecs :
          /\ cy = [p \in Procs |->
                     IF p = 1
                     THEN [FreshCycle EXCEPT !.pc = "write", !.resources = resources,
                                             !.repo = [branch |-> "change", head |-> mainTip,
                                                       tree |-> mainTip.files, origin |-> NoBranch]]
                     ELSE FreshCycle]
          /\ h = [p \in Procs |->
                     IF p = 1
                     THEN [FreshHistory(remote, prs, NoStatus)
                              EXCEPT !.rec = resources, !.fetched = TRUE, !.vpa = "ok",
                                     !.lookups = 1, !.clones = 1, !.checkouts = 1]
                     ELSE FreshHistory(remote, prs, NoStatus)]
    /\ log = [p \in Procs |-> NoLog]
    /\ fails = MaxFailures

NextPatch == CreatePatchFile(1)

SpecPatch == InitPatch /\ [][NextPatch]_vars

\* ------------------------------------------------------------------ claims

\* The patch artifact of the cycle owner's target for a recommendation.
Artifact(p, resources) == FileOf(PatchOps(tgt[p], resources))

OnRemote(p, resources) ==
    remote.exists /\ remote.files[PatchPath(GitPath, tgt[p])] = Artifact(p, resources)

Ended(p) == cy[p].pc \in Terminal

\* C1: for a fixed target and a fixed non-empty recommendation, with no step
\* failing, every cycle after the first adds no commit to the remote change
\* branch (its tip stays the one the cycle found), calls create_pull_request
\* zero times and leaves the set of open requests unchanged, of size one.
C1_RepeatedCycleIsNoOp ==
    (/\ log[1].n >= 1
     /\ log[1].allClean /\ h[1].clean
     /\ log[1].sameRec /\ ~NoRecommendation(log[1].rec1)
     /\ h[1].fetched => h[1].rec = log[1].rec1)
    => /\ remote = h[1].tip0
       /\ h[1].commits = 0 /\ h[1].pushes = 0
       /\ h[1].creates = 0
       /\ prs = h[1].open0
       /\ Cardinality(prs) = 1

\* C1 witness: the first cycle opened the request, the second cycle, with the
\* same recommendation, ran to its end without a commit.
C1_Witness ==
    /\ log[1].n = 1 /\ log[1].allClean /\ log[1].last.creates = 1
    /\ cy[1].pc = "done" /\ h[1].clean /\ h[1].noop
    /\ h[1].rec = log[1].rec1 /\ ~NoRecommendation(h[1].rec)
    /\ h[1].outcome = "written"

\* C2: when a request is open at the start of a cycle, that cycle and the
\* next one, both reporting success, leave exactly one open request, never
\* call create_pull_request, and report the same request number.
C2_ExistingRequestReused ==
    (/\ log[1].n >= 1 /\ Ended(1)
     /\ log[1].last.open0 # {}
     /\ log[1].last.reason = "PatchCreated"
     /\ AttemptedReason(h[1]) = "PatchCreated")
    => /\ Cardinality(prs) = 1
       /\ log[1].last.creates = 0 /\ h[1].creates = 0
       /\ AttemptedNumber(h[1]) = log[1].last.number

\* C3: a cycle that has returned or raised has called update_status.
C3_StatusOnEveryExit == Ended(1) => h[1].attempts # <<>>

\* C4: a cycle whose recommendation is empty makes no review-request lookup
\* or creation, no clone, checkout, patch-file write, commit or push, leaves
\* the remote and the open requests as they were, and the only status it
\* hands to update_status is False / NoRecommendations.
C4_EmptyShortCircuit ==
    (h[1].fetched /\ \A k \in DOMAIN h[1].rec : h[1].rec[k] = Absent)
    => /\ h[1].lookups = 0 /\ h[1].creates = 0
       /\ h[1].clones = 0 /\ h[1].checkouts = 0 /\ h[1].writes = 0
       /\ h[1].commits = 0 /\ h[1].pushes = 0
       /\ remote = h[1].tip0 /\ prs = h[1].open0
       /\ cy[1].pc \in {"status_read", "status_patch", "done"}
       /\ cy[1].status_data = NoRecommendationStatus
       /\ \A i \in DOMAIN h[1].attempts :
             /\ h[1].attempts[i].conditions[1].status = "False"
             /\ h[1].attempts[i].conditions[1].reason = "NoRecommendations"
       /\ cy[1].pc = "done" => Len(h[1].attempts) = 1

\* C4 witness: an empty recommendation's status has been written.
C4_Witness ==
    /\ h[1].fetched /\ h[1].rec = EmptyRec
    /\ cy[1].pc = "done" /\ h[1].outcome = "written"
    /\ cr[1].status.conditions[1].reason = "NoRecommendations"

\* C5: git_commit_and_push on a working tree equal to the last commit of the
\* checked-out branch makes no commit and no push: the remote tip and the
\* local head stay as they are.
C5_CleanTreeNoCommitNoPush ==
    [][(cy[1].pc = "commit_push" /\ cy[1].repo.tree = cy[1].repo.head.files)
       => /\ remote' = remote
          /\ nextCommit' = nextCommit
          /\ cy'[1].repo.head = cy[1].repo.head
          /\ h'[1].commits = h[1].commits /\ h'[1].pushes = h[1].pushes]_vars

\* C5 witness: a patch file was written over identical content and
\* git_commit_and_push returned without a commit.
C5_Witness ==
    /\ h[1].writes = 1 /\ h[1].noop
    /\ cy[1].pc = "count2"
    /\ cy[1].repo.tree[PatchPath(GitPath, tgt[1])] = Artifact(1, cy[1].resources)

C7_TransportFailureIsFatal ==
    /\ h[1].afterT = 0
    /\ (Ended(1) /\ h[1].tfail) => AttemptedReason(h[1]) = "ProcessingError"

\* C8: when create_pull_request was called and the service created no
\* request, the status handed to update_status is False / ProcessingError,
\* and never True / PatchCreated without a request number.
C8_CreateFailureIsFatal ==
    (h[1].creates > 0 /\ h[1].createRes # "created" /\ h[1].attempts # <<>>)
    => /\ AttemptedReason(h[1]) = "ProcessingError"
       /\ ~(AttemptedReason(h[1]) = "PatchCreated" /\ AttemptedNumber(h[1]) = 0)

\* C9: after a cycle in which a step failed, a cycle with the same
\* non-empty recommendation in which no step fails ends with the patch
\* artifact on the remote change branch, exactly one open request, and the
\* stored status True / PatchCreated.
C9_RetryAfterFailureConverges ==
    (/\ log[1].n >= 1 /\ ~log[1].last.clean
     /\ cy[1].pc = "done" /\ h[1].clean /\ cr[1].exists
     /\ ~NoRecommendation(h[1].rec)
     /\ log[1].last.fetched => log[1].last.rec = h[1].rec)
    => /\ OnRemote(1, h[1].rec)
       /\ Cardinality(prs) = 1
       /\ "conditions" \in DOMAIN cr[1].status
       /\ cr[1].status.conditions[1].status = "True"
       /\ cr[1].status.conditions[1].reason = "PatchCreated"
       /\ cr[1].status.pullRequest.number \in prs

\* C9 witness: the push of the first cycle failed, the second cycle pushed
\* the artifact and opened the request.
C9_Witness ==
    /\ log[1].n = 1 /\ log[1].last.failedAt = {"push_fail"}
    /\ cy[1].pc = "done" /\ h[1].clean /\ cr[1].exists
    /\ h[1].rec = log[1].last.rec
    /\ h[1].pushes = 1 /\ h[1].createRes = "created"
    /\ OnRemote(1, h[1].rec)

\* C10: update_status never raises into the cycle; when the owning resource
\* is absent at the existence read, or deleted between the read and the
\* patch, the cycle ends normally and the stored status is the one the cycle
\* found.
C10_UpdateStatusNeverRaises ==
    /\ h[1].raisedFrom # "update_status"
    /\ (Ended(1) /\ h[1].attempts # <<>>) => cy[1].pc = "done"
    /\ (Ended(1) /\ h[1].attempts # <<>> /\ ~cr[1].exists)
       => /\ h[1].outcome \in {"skipped", "logged"}
          /\ cr[1].status = h[1].status0

\* C10 witness: the resource was deleted between the existence read and the
\* patch, and the cycle ended.
C10_Witness ==
    /\ cy[1].pc = "done" /\ ~cr[1].exists
    /\ cy[1].read_answer = "ok" /\ h[1].outcome = "logged"
    /\ h[1].failedAt = {}

\* C11: a 404 answer of the VPA read makes get_vpa_recommendation return the
\* empty recommendation without raising, and the cycle hands the
\* NoRecommendations status to update_status; every other failure of the
\* read leaves get_vpa_recommendation as kopf.TemporaryError with a delay.
C11_FetchClassification ==
    /\ h[1].vpa = "404"
       => /\ h[1].fetched /\ h[1].rec = EmptyRec
          /\ h[1].raisedFrom # "fetch"
          /\ cy[1].status_data = NoRecommendationStatus
    /\ h[1].vpa \notin {"none", "ok", "404"}
       => /\ h[1].raisedFrom = "fetch"
          /\ h[1].error.kind = "TemporaryError"
          /\ h[1].error.delay > 0

\* C12: the path create_patch_file writes is the same for every
\* recommendation: after the write the working tree differs from the
\* checked-out commit at most in the one file of the target, which holds
\* the artifact of the current recommendation, and the tree has no other
\* new file.
C12_PatchPathIdempotent ==
    cy[1].pc = "commit_push"
    => LET tree == cy[1].repo.tree
           before == cy[1].repo.head.files
           path == PatchPath(GitPath, tgt[1])
       IN /\ \A f \in AllPaths \ {path} : tree[f] = before[f]
          /\ tree[path] = Artifact(1, cy[1].resources)
          /\ {f \in AllPaths : tree[f].exists} = {f \in AllPaths : before[f].exists} \cup {path}

\* C12 witness: the first cycle pushed the artifact of one recommendation,
\* the second cycle wrote the artifact of another one over it.
C12_Witness ==
    /\ log[1].n = 1 /\ log[1].last.clean /\ ~NoRecommendation(log[1].last.rec)
    /\ cy[1].pc = "commit_push"
    /\ cy[1].resources # log[1].last.rec
    /\ cy[1].repo.head.files[PatchPath(GitPath, tgt[1])] = Artifact(1, log[1].last.rec)
    /\ cy[1].repo.tree[PatchPath(GitPath, tgt[1])] = Artifact(1, cy[1].resources)

\* Two descriptors name different targets: they differ in namespace, or in
\* kind or name compared without case.
TargetsDiffer(t1, t2) ==
    \/ t1.namespace # t2.namespace
    \/ Lower(t1.kind) # Lower(t2.kind)
    \/ Lower(t1.name) # Lower(t2.name)

\* C13: two descriptors of different targets get different patch files, so
\* a cycle for one target does not write over the artifact of another: when
\* a cycle has checked out a commit that holds the artifact another
\* target's cycle pushed, that artifact is still in its working tree after
\* create_patch_file.
C13_OneFilePerTarget ==
    \A p \in Procs, q \in Procs :
        (/\ TargetsDiffer(tgt[p], tgt[q])
         /\ cy[p].pc = "commit_push"
         /\ h[q].pushes > 0
         /\ cy[p].repo.head.files[PatchPath(GitPath, tgt[q])] = Artifact(q, h[q].rec))
        => cy[p].repo.tree[PatchPath(GitPath, tgt[q])] = Artifact(q, h[q].rec)

\* The operations of the patch file the cycle owner's create_patch_file
\* wrote.
WrittenOps(p) == cy[p].repo.tree[PatchPath(GitPath, tgt[p])].ops

\* C14: the patch create_patch_file writes holds, for each of cpu and
\* memory that the recommendation has, one add operation on
\* /spec/template/spec/containers/<containerIndex>/resources/requests/<dim>
\* with the recommended value, and no operation at all, request or limit,
\* for a dimension the recommendation has not.
C14_RequestsFollowRecommendation ==
    cy[1].pc = "commit_push"
    => LET ops == WrittenOps(1)
           resources == cy[1].resources
       IN \A dim \in {"cpu", "memory"} :
             /\ Has(resources, dim)
                => Cardinality({i \in DOMAIN ops :
                                   ops[i] = PatchOp(tgt[1].containerIndex, "requests", dim,
                                                    resources[dim])}) = 1
             /\ Has(resources, dim)
                => \A i \in DOMAIN ops :
                      (ops[i].section = "requests" /\ ops[i].dim = dim)
                      => ops[i].value = resources[dim]
             /\ ~Has(resources, dim) => \A i \in DOMAIN ops : ops[i].dim # dim
             /\ \A i \in DOMAIN ops :
                   ops[i].op = "add" /\ ops[i].container = tgt[1].containerIndex

\* C14 witness: a patch was written for a recommendation that has cpu and
\* has no memory, on the second container of its target.
C14_Witness ==
    /\ cy[1].pc = "commit_push"
    /\ Has(cy[1].resources, "cpu") /\ ~Has(cy[1].resources, "memory")
    /\ tgt[1].containerIndex = 1
    /\ Len(WrittenOps(1)) = 1

\* The limit of a dimension: the explicit limit where the dict has one, the
\* request value otherwise.
LimitOf(resources, dim) ==
    IF dim = "memory" /\ Has(resources, "memoryLimit") THEN resources.memoryLimit
    ELSE resources[dim]

\* C15: for every dimension the recommendation has, cpu and memory alike,
\* the patch holds a limits operation whose value is the explicit limit or
\* else the request value; for a recommendation with both dimensions the
\* limits operations are for both or for neither.
C15_UniformLimitPolicy ==
    cy[1].pc = "commit_push"
    => LET ops == WrittenOps(1)
           resources == cy[1].resources
           limited == {dim \in {"cpu", "memory"} :
                          \E i \in DOMAIN ops : ops[i].section = "limits" /\ ops[i].dim = dim}
       IN /\ \A dim \in {"cpu", "memory"} :
                Has(resources, dim)
                => \E i \in DOMAIN ops :
                      ops[i] = PatchOp(tgt[1].containerIndex, "limits", dim,
                                       LimitOf(resources, dim))
          /\ (Has(resources, "cpu") /\ Has(resources, "memory"))
             => limited \in {{}, {"cpu", "memory"}}

\* C16: the status a cycle hands to update_status after git_commit_and_push
\* found nothing to commit tells the no-op: it differs from the status the
\* cycle before handed over after it committed and pushed.  (The wall-clock
\* fields, which differ between any two cycles, are left out of the
\* status.)
C16_NoOpIsReported ==
    (/\ log[1].n >= 1
     /\ log[1].last.pushes > 0 /\ log[1].last.reason = "PatchCreated"
     /\ h[1].noop /\ AttemptedReason(h[1]) = "PatchCreated")
    => AttemptedStatus(h[1]) # log[1].last.status

\* C17: after a cycle's status write the stored status of the owning
\* resource holds the fields of that cycle's status_data and nothing of an
\* earlier cycle.
C17_StatusRecreatedFresh ==
    (cy[1].pc = "done" /\ h[1].outcome = "written")
    => cr[1].status = AttemptedStatus(h[1])

\* C18: a cycle in which nothing failed but get_commit_count (before the
\* checkout, after the push, caught inside or by the caller) takes the same
\* steps and ends as a cycle without a failure: one checkout, one write,
\* the artifact on the remote branch, create_pull_request called exactly
\* when no request was open, and True / PatchCreated with the number of the
\* open request handed to update_status.
C18_CommitCountBestEffort ==
    (Ended(1) /\ h[1].failedAt = {"commit_count"})
    => /\ cy[1].pc = "done"
       /\ h[1].checkouts = 1 /\ h[1].writes = 1
       /\ h[1].noop \/ h[1].pushes = 1
       /\ OnRemote(1, h[1].rec)
       /\ h[1].creates = Bit(h[1].open0 = {})
       /\ Cardinality(prs) = 1
       /\ AttemptedReason(h[1]) = "PatchCreated"
       /\ AttemptedStatus(h[1]).conditions[1].status = "True"
       /\ AttemptedNumber(h[1]) \in prs

\* C18 witness: the lookup after the push failed, and the cycle pushed,
\* opened the request and wrote its status.
C18_Witness ==
    /\ cy[1].pc = "done" /\ h[1].failedAt = {"commit_count"}
    /\ h[1].pushes = 1 /\ h[1].createRes = "created"
    /\ h[1].outcome = "written"
    /\ cr[1].status.pullRequest.commits = 0

\* git_commit_and_push has returned without an exception.
MaterializerDone(p) == h[p].noop \/ h[p].pushes > 0

\* C19: the review-request service is called, for the lookup or for the
\* creation, only after the materializer has finished (branch, write,
\* commit and push), so the lookup that decides the creation is made after
\* the push.
C19_ReviewRequestAfterMaterializer ==
    (h[1].lookups > 0 \/ h[1].creates > 0) => MaterializerDone(1)

\* C20: create_or_checkout_branch puts the local branch on the remote tip of
\* the change branch when that branch exists on the remote (on the default
\* branch tip otherwise), and the patch files of other targets that the
\* remote change branch held when the cycle started are on it, unchanged,
\* at every later step of the cycle.
C20_BranchReusePreservesProposals ==
    /\ cy[1].pc = "write"
       => cy[1].repo.head = (IF h[1].tip0.exists THEN h[1].tip0 ELSE mainTip)
    /\ \A f \in AllPaths \ {PatchPath(GitPath, tgt[1])} :
          (h[1].tip0.exists /\ h[1].tip0.files[f].exists)
          => (remote.exists /\ remote.files[f] = h[1].tip0.files[f])

\* C21: when two cycles for targets with different patch files, both on
\* the branch vpar/proposition, have both run to their end without a
\* failing step, in any interleaving, the remote branch tip holds the
\* artifacts of both: no push of one cycle drops the commit of the other.
C21_ConcurrentCyclesConverge ==
    (/\ PatchPath(GitPath, tgt[1]) # PatchPath(GitPath, tgt[2])
     /\ \A p \in Procs :
           /\ cy[p].pc = "done" /\ h[p].clean
           /\ ~NoRecommendation(h[p].rec))
    => \A p \in Procs : OnRemote(p, h[p].rec)

\* C22: create_pull_request is called only while the change branch is on
\* the remote and holds the patch artifact of the cycle, also when the
\* branch was created locally and git_commit_and_push found nothing to
\* commit because the default branch holds the same artifact.
C22_CreateOnlyForRemoteBranch ==
    cy[1].pc = "pr_create" => OnRemote(1, cy[1].resources)

=============================================================================
